---- MODULE Spec2Model ----
(***************************************************************************)
(* Model of monitor.py: the EndpointMonitor availability monitor.          *)
(*                                                                         *)
(* The main thread runs monitor(): an immediate check_all_endpoints pass   *)
(* and log_results report, then sleep / pass / report for ever, until a    *)
(* KeyboardInterrupt is caught.  check_all_endpoints hands one             *)
(* check_health call per endpoint to a ThreadPoolExecutor and leaves the   *)
(* `with` block only when every call has finished.  The worker threads     *)
(* share the registry self.stats (domain -> DomainStats); each DomainStats *)
(* guards its two counters with its own lock.                              *)
(*                                                                         *)
(* Atomicity: a dictionary test, load or store is one step (one bytecode   *)
(* under the interpreter lock); `with self.lock: self.x += 1` is two       *)
(* steps, acquire-and-load then store-and-release.                         *)
(***************************************************************************)
EXTENDS Integers, Sequences, FiniteSets, TLC

VARIABLES endpoints, stats, heap, tasks, mainpc, batch, reports, sleeps,
          report, stopLogged, before

vars == <<endpoints, stats, heap, tasks, mainpc, batch, reports, sleeps,
          report, stopLogged, before>>

----------------------------------------------------------------------------
(* Bounds *)

\* longest configured endpoint list
MaxEndpoints == 2

\* number of check_all_endpoints passes after which the loop is cut off
MaxTicks == 2

\* largest counter value log_results is given to print
MaxCount == 10

----------------------------------------------------------------------------
(* Program constants *)

\* timeout=0.5 and response_time <= 0.5, in milliseconds
TimeoutMs == 500

\* 200 <= response.status_code
StatusLow == 200

\* response.status_code < 300
StatusHigh == 300

----------------------------------------------------------------------------
(* URLs are sequences of one-character strings. *)

Alpha == {"h", "s", "a", "b", "u", "p", "v", "w"}

SchemeChars == Alpha \cup {"8", "+", "-", "."}

URL_A_PORT == <<"h", ":", "/", "/", "a", ":", "8", "/", "v">>

URL_A == <<"h", ":", "/", "/", "a", "/", "w">>

URL_B == <<"h", ":", "/", "/", "b", "/", "v">>

\* the URLs configurations are built from
URLS == {URL_A_PORT, URL_A, URL_B}

SetMin(S) == CHOOSE x \in S : \A y \in S : x <= y

\* str.find(c): index of the first occurrence, 0 when there is none
Find(s, c) ==
    LET hits == {i \in 1..Len(s) : s[i] = c}
    IN  IF hits = {} THEN 0 ELSE SetMin(hits)

\* urlsplit: the text after a valid "scheme:" prefix, else the whole text
AfterScheme(url) ==
    LET i == Find(url, ":")
    IN  IF /\ i > 1
           /\ url[1] \in Alpha
           /\ \A j \in 1..(i - 1) : url[j] \in SchemeChars
        THEN SubSeq(url, i + 1, Len(url))
        ELSE url

\* urlsplit / _splitnetloc: the text between "//" and the next of / ? #
Netloc(url) ==
    LET rest   == AfterScheme(url)
        delims == {j \in 3..Len(rest) : rest[j] \in {"/", "?", "#"}}
        last   == IF delims = {} THEN Len(rest) ELSE SetMin(delims) - 1
    IN  IF Len(rest) >= 2 /\ rest[1] = "/" /\ rest[2] = "/"
        THEN SubSeq(rest, 3, last)
        ELSE <<>>

\* s.split(c)[0]
SplitFirst(s, c) ==
    LET i == Find(s, c)
    IN  IF i = 0 THEN s ELSE SubSeq(s, 1, i - 1)

\* EndpointMonitor._extract_domain
extract_domain(url) == SplitFirst(Netloc(url), ":")

----------------------------------------------------------------------------
(* The registry self.stats: a dict kept in insertion order, as a sequence  *)
(* of [domain, obj] entries; obj indexes the heap of DomainStats objects.  *)

\* DomainStats.__init__
NewDomainStats == [total |-> 0, success |-> 0, locked |-> FALSE]

\* domain in self.stats
Has(reg, d) == \E i \in 1..Len(reg) : reg[i].domain = d

\* self.stats[domain]
Get(reg, d) == reg[CHOOSE i \in 1..Len(reg) : reg[i].domain = d].obj

\* self.stats[domain] = obj : a new key is appended, an old key keeps its place
Put(reg, d, o) ==
    IF Has(reg, d)
    THEN [i \in 1..Len(reg) |->
            IF reg[i].domain = d THEN [domain |-> d, obj |-> o] ELSE reg[i]]
    ELSE Append(reg, [domain |-> d, obj |-> o])

\* EndpointMonitor._initialize_stats: registry and heap after the first n endpoints
RECURSIVE InitializeStats(_, _)
InitializeStats(eps, n) ==
    IF n = 0 THEN [reg |-> <<>>, hp |-> <<>>]
    ELSE LET prev == InitializeStats(eps, n - 1)
             d    == extract_domain(eps[n].url)
         IN  IF Has(prev.reg, d) THEN prev
             ELSE [reg |-> Put(prev.reg, d, Len(prev.hp) + 1),
                   hp  |-> Append(prev.hp, NewDomainStats)]

\* an endpoint of the list with only its url given: endpoint.get supplies
\* headers {} and body ''
Endpoint(url) == [url |-> url, headers |-> <<>>, body |-> <<>>]

\* two endless endpoint lists: one host under two ports, and two hosts mixed
SameHost(i) == Endpoint(IF i % 2 = 1 THEN URL_A_PORT ELSE URL_A)

TwoHosts(i) ==
    Endpoint(IF i % 3 = 1 THEN URL_A_PORT ELSE IF i % 3 = 2 THEN URL_B ELSE URL_A)

\* the configured lists: yaml.safe_load result, a non-empty list of endpoints
Configs ==
    {[i \in 1..n |-> SameHost(i)] : n \in 1..MaxEndpoints}
    \cup {[i \in 1..n |-> TwoHosts(i)] : n \in 1..MaxEndpoints}

Domains == {extract_domain(u) : u \in URLS}

\* _extract_domain of each of the URLs above, worked out once
KnownDomain == [u \in URLS |-> extract_domain(u)]

\* line 65 for endpoint i
DomainOf(i) ==
    LET u == endpoints[i].url
    IN  IF u \in URLS THEN KnownDomain[u] ELSE extract_domain(u)

\* counters of the entry the registry holds for d (0 when d has no entry)
Total(d) == IF Has(stats, d) THEN heap[Get(stats, d)].total ELSE 0

Success(d) == IF Has(stats, d) THEN heap[Get(stats, d)].success ELSE 0

\* number of configured endpoints whose domain is d
Count(d) == Cardinality({i \in 1..Len(endpoints) : DomainOf(i) = d})

----------------------------------------------------------------------------
(* What the HTTP client hands back to one requests.request call. *)

NoResult == [kind |-> "none", status |-> 0, elapsed |-> 0]

Statuses == {199, 200, 299, 300}

Elapsed == {TimeoutMs, TimeoutMs + 1}

Results ==
    [kind : {"response"}, status : Statuses, elapsed : Elapsed]
    \cup [kind : {"timeout", "transport_error", "other_error"},
          status : {0}, elapsed : {0}]

\* MeetsCriteria without the response-time test
MeetsCriteria_StatusOnly(status, elapsed) ==
    /\ StatusLow <= status
    /\ status < StatusHigh

\* MeetsCriteria with the upper status bound included
MeetsCriteria_Upto300(status, elapsed) ==
    /\ StatusLow <= status
    /\ status <= StatusHigh
    /\ elapsed <= TimeoutMs

\* line 95: 200 <= response.status_code < 300 and response_time <= 0.5
MeetsCriteria(status, elapsed) ==
    /\ StatusLow <= status
    /\ status < StatusHigh
    /\ elapsed <= TimeoutMs

\* Caught without the final `except Exception` clause
Caught_NoGeneric(kind) == kind \in {"timeout", "transport_error"}

\* lines 99-104: the except clauses of check_health
Caught(kind) == kind \in {"timeout", "transport_error", "other_error"}

----------------------------------------------------------------------------
(* The payload of the request, lines 72-80 and 88-89.  Header names, header *)
(* values and bodies are sequences of one-character strings; a header dict  *)
(* is a function from names to values.                                      *)

CT_LOWER == <<"c", "o", "n", "t", "e", "n", "t", "-", "t", "y", "p", "e">>

CT_TITLE == <<"C", "o", "n", "t", "e", "n", "t", "-", "T", "y", "p", "e">>

JSON == <<"j", "s", "o", "n">>

V_JSON == <<"a", "/", "j", "s", "o", "n">>

V_JSON_UPPER == <<"a", "/", "J", "S", "O", "N">>

V_TEXT == <<"t", "x", "t">>

B_OBJECT == <<"{", "}">>

B_ARRAY == <<"[", "]">>

B_MALFORMED == <<"{">>

B_TEXT == <<"x">>

\* the header dicts and bodies endpoints are given
HeaderDicts ==
    {<<>>, CT_LOWER :> V_JSON, CT_LOWER :> V_JSON_UPPER, CT_TITLE :> V_JSON,
     CT_LOWER :> V_TEXT}

Bodies == {<<>>, B_OBJECT, B_ARRAY, B_MALFORMED, B_TEXT}

\* str.lower() on one character
LowerChar(c) ==
    CASE c = "C" -> "c"
      [] c = "T" -> "t"
      [] c = "J" -> "j"
      [] c = "S" -> "s"
      [] c = "O" -> "o"
      [] c = "N" -> "n"
      [] OTHER   -> c

\* str.lower()
Lower(s) == [i \in 1..Len(s) |-> LowerChar(s[i])]

\* sub in s
Contains(s, sub) ==
    \E i \in 0..(Len(s) - Len(sub)) : SubSeq(s, i + 1, i + Len(sub)) = sub

\* Python values handed to requests.request as json= / data=
None == [type |-> "none", text |-> <<>>]

Str(text) == [type |-> "str", text |-> text]

\* json.loads: an object gives a dict, an array a list, anything else
\* raises JSONDecodeError
JsonLoads(body) ==
    IF Len(body) = 2 /\ body[1] = "{" /\ body[2] = "}"
    THEN [ok |-> TRUE, value |-> [type |-> "dict", text |-> <<>>]]
    ELSE IF Len(body) = 2 /\ body[1] = "[" /\ body[2] = "]"
    THEN [ok |-> TRUE, value |-> [type |-> "list", text |-> <<>>]]
    ELSE [ok |-> FALSE, value |-> None]

\* line 74: 'content-type' in headers and 'json' in headers['content-type'].lower()
IsJsonContent(headers) ==
    /\ CT_LOWER \in DOMAIN headers
    /\ Contains(Lower(headers[CT_LOWER]), JSON)

\* SelectData without the `except json.JSONDecodeError` fallback
SelectData_NoFallback(headers, body) ==
    IF body # <<>> /\ IsJsonContent(headers)
    THEN LET parsed == JsonLoads(body)
         IN  [raised |-> ~parsed.ok,
              data   |-> IF parsed.ok THEN parsed.value ELSE None]
    ELSE IF body # <<>>
    THEN [raised |-> FALSE, data |-> Str(body)]
    ELSE [raised |-> FALSE, data |-> None]

\* lines 73-80: the local `data`; raised tells an exception left the block
SelectData(headers, body) ==
    IF body # <<>> /\ IsJsonContent(headers)
    THEN LET parsed == JsonLoads(body)
         IN  [raised |-> FALSE,
              data   |-> IF parsed.ok THEN parsed.value ELSE Str(body)]
    ELSE IF body # <<>>
    THEN [raised |-> FALSE, data |-> Str(body)]
    ELSE [raised |-> FALSE, data |-> None]

\* lines 88-89: a dict goes to json=, anything else to data=
SelectPayload(headers, body) ==
    LET d == SelectData(headers, body)
    IN  [raised |-> d.raised,
         json   |-> IF d.data.type = "dict" THEN d.data ELSE None,
         data   |-> IF d.data.type # "dict" THEN d.data ELSE None]

NoPayload == [raised |-> FALSE, json |-> None, data |-> None]

----------------------------------------------------------------------------
(* Reporting *)

\* Percentage that reports a domain without attempts as fully available
Percentage_EmptyIs100(success, total) ==
    IF total > 0
    THEN LET n == 100 * success
             q == n \div total
             r == n % total
         IN  IF 2 * r < total THEN q
             ELSE IF 2 * r > total THEN q + 1
             ELSE IF q % 2 = 0 THEN q ELSE q + 1
    ELSE 100

\* Percentage that rounds a half up
Percentage_HalfUp(success, total) ==
    IF total > 0
    THEN LET n == 100 * success
             q == n \div total
             r == n % total
         IN  IF 2 * r < total THEN q ELSE q + 1
    ELSE 0

\* int(round(100 * success / total)) if total > 0 else 0 ; round() is half-to-even
Percentage(success, total) ==
    IF total > 0
    THEN LET n == 100 * success
             q == n \div total
             r == n % total
         IN  IF 2 * r < total THEN q
             ELSE IF 2 * r > total THEN q + 1
             ELSE IF q % 2 = 0 THEN q ELSE q + 1
    ELSE 0

\* ReportLine with the two counters printed in each other's place
ReportLine_Swapped(d, o) ==
    [domain     |-> d,
     percentage |-> Percentage(heap[o].success, heap[o].total),
     success    |-> heap[o].total,
     total      |-> heap[o].success]

\* one printed line of log_results
ReportLine(d, o) ==
    [domain     |-> d,
     percentage |-> Percentage(heap[o].success, heap[o].total),
     success    |-> heap[o].success,
     total      |-> heap[o].total]

----------------------------------------------------------------------------
(* Tasks: one check_health call handed to the executor. *)

\* a call submitted by executor.map for endpoint i in pass b; domain is the
\* local of line 65, a function of the endpoint alone
NewTask(i, b) ==
    [ep |-> i, domain |-> DomainOf(i), batch |-> b, pc |-> "queued", ref |-> 0, tmp |-> 0,
     result |-> NoResult, att |-> 0, succ |-> 0, payload |-> NoPayload,
     sent |-> FALSE, log |-> <<>>]

\* the call has returned, or has raised into its future
Finished(t) == t.pc \in {"done", "raised"}

\* the call has been picked up by a worker and has not finished
InFlight(t) == t.pc \notin {"queued", "done", "raised"}

\* AllFinished for an executor that returns at the first completed call
AllFinished_Any == tasks = <<>> \/ \E k \in 1..Len(tasks) : Finished(tasks[k])

\* AllFinished for shutdown(wait=False)
AllFinished_NoWait == TRUE

\* ThreadPoolExecutor.__exit__ -> shutdown(wait=True): every worker has been joined
AllFinished == \A k \in 1..Len(tasks) : Finished(tasks[k])

\* LockFree with the lock left out of the counters
LockFree_NoLock(o) == TRUE

\* threading.Lock: acquire succeeds only on a free lock
LockFree(o) == ~heap[o].locked

----------------------------------------------------------------------------
(* Initial states *)

\* EndpointMonitor.__init__: load the list, then _initialize_stats
Init ==
    /\ endpoints \in Configs
    /\ stats = InitializeStats(endpoints, Len(endpoints)).reg
    /\ heap = InitializeStats(endpoints, Len(endpoints)).hp
    /\ tasks = <<>>
    /\ mainpc = "Starting"
    /\ batch = 0
    /\ reports = 0
    /\ sleeps = 0
    /\ report = <<>>
    /\ stopLogged = FALSE
    /\ before = [d \in Domains |-> [total |-> 0, success |-> 0]]

----------------------------------------------------------------------------
(* The main thread: monitor() *)

\* the statements inside the try block of monitor()
InTry == {"fanout", "join", "report", "sleep"}

\* line 122: print the endpoint count and enter the try block
StartMonitor ==
    /\ mainpc = "Starting"
    /\ mainpc' = "fanout"
    /\ UNCHANGED <<endpoints, stats, heap, tasks, batch, reports, sleeps,
                   report, stopLogged, before>>

\* check_all_endpoints, line 109: executor.map submits one call per endpoint
Submit ==
    /\ mainpc = "fanout"
    /\ tasks' = SelectSeq(tasks, LAMBDA t : ~Finished(t))
                \o [i \in 1..Len(endpoints) |-> NewTask(i, batch + 1)]
    /\ batch' = batch + 1
    /\ before' = [d \in Domains |-> [total |-> Total(d), success |-> Success(d)]]
    /\ mainpc' = "join"
    /\ UNCHANGED <<endpoints, stats, heap, reports, sleeps, report, stopLogged>>

\* Join for a monitor() whose initial pass is not followed by log_results
Join_NoFirstReport ==
    /\ mainpc = "join"
    /\ AllFinished
    /\ mainpc' = IF batch = 1 THEN "sleep" ELSE "report"
    /\ UNCHANGED <<endpoints, stats, heap, tasks, batch, reports, sleeps,
                   report, stopLogged, before>>

\* check_all_endpoints, line 108: leaving the with block waits for the workers
Join ==
    /\ mainpc = "join"
    /\ AllFinished
    /\ mainpc' = "report"
    /\ UNCHANGED <<endpoints, stats, heap, tasks, batch, reports, sleeps,
                   report, stopLogged, before>>

\* log_results that starts every entry afresh after printing it
log_results_Reset ==
    /\ mainpc = "report"
    /\ \A i \in 1..Len(stats) : LockFree(stats[i].obj)
    /\ report' = [i \in 1..Len(stats) |-> ReportLine(stats[i].domain, stats[i].obj)]
    /\ reports' = reports + 1
    /\ mainpc' = "sleep"
    /\ heap' = [o \in 1..Len(heap) |-> NewDomainStats]
    /\ UNCHANGED <<endpoints, stats, tasks, batch, sleeps, stopLogged, before>>

\* log_results: one line per registry entry, each read under the entry's lock
log_results ==
    /\ mainpc = "report"
    /\ \A i \in 1..Len(stats) : LockFree(stats[i].obj)
    /\ report' = [i \in 1..Len(stats) |-> ReportLine(stats[i].domain, stats[i].obj)]
    /\ reports' = reports + 1
    /\ mainpc' = "sleep"
    /\ UNCHANGED <<endpoints, stats, heap, tasks, batch, sleeps, stopLogged, before>>

\* line 131: time.sleep(15), then the next pass
Sleep ==
    /\ mainpc = "sleep"
    /\ batch < MaxTicks
    /\ sleeps' = sleeps + 1
    /\ mainpc' = "fanout"
    /\ UNCHANGED <<endpoints, stats, heap, tasks, batch, reports, report,
                   stopLogged, before>>

\* Interrupt for a handler placed inside the while loop: the loop goes on
Interrupt_Resume ==
    /\ mainpc \in InTry
    /\ mainpc' = "fanout"
    /\ stopLogged' = TRUE
    /\ UNCHANGED <<endpoints, stats, heap, tasks, batch, reports, sleeps,
                   report, before>>

\* lines 135-136: KeyboardInterrupt raised inside the try block is caught
Interrupt ==
    /\ mainpc \in InTry
    /\ mainpc' = "Stopped"
    /\ stopLogged' = TRUE
    /\ UNCHANGED <<endpoints, stats, heap, tasks, batch, reports, sleeps,
                   report, before>>

\* KeyboardInterrupt raised at line 122, before the try block: not caught
InterruptUncaught ==
    /\ mainpc = "Starting"
    /\ mainpc' = "Killed"
    /\ UNCHANGED <<endpoints, stats, heap, tasks, batch, reports, sleeps,
                   report, stopLogged, before>>

----------------------------------------------------------------------------
(* A worker thread: check_health(endpoint) *)

MainUnchanged ==
    UNCHANGED <<endpoints, mainpc, batch, reports, sleeps, report, stopLogged,
                before>>

\* with self.lock: self.total += 1
increment_total(k) ==
    LET t == tasks[k]
    IN  /\ t.pc \in {"enterT", "exitT"}
        /\ IF t.pc = "enterT"
           THEN /\ LockFree(t.ref)
                /\ heap' = [heap EXCEPT ![t.ref].locked = TRUE]
                /\ tasks' = [tasks EXCEPT ![k].tmp = heap[t.ref].total,
                                          ![k].pc = "exitT"]
           ELSE /\ heap' = [heap EXCEPT ![t.ref].total = t.tmp + 1,
                                        ![t.ref].locked = FALSE]
                /\ tasks' = [tasks EXCEPT ![k].att = t.att + 1,
                                          ![k].tmp = 0,
                                          ![k].pc = "request"]
        /\ UNCHANGED stats
        /\ MainUnchanged

\* with self.lock: self.success += 1
increment_success(k) ==
    LET t == tasks[k]
    IN  /\ t.pc \in {"enterS", "exitS"}
        /\ IF t.pc = "enterS"
           THEN /\ LockFree(t.ref)
                /\ heap' = [heap EXCEPT ![t.ref].locked = TRUE]
                /\ tasks' = [tasks EXCEPT ![k].tmp = heap[t.ref].success,
                                          ![k].pc = "exitS"]
           ELSE /\ heap' = [heap EXCEPT ![t.ref].success = t.tmp + 1,
                                        ![t.ref].locked = FALSE]
                /\ tasks' = [tasks EXCEPT ![k].succ = t.succ + 1,
                                          ![k].tmp = 0,
                                          ![k].pc = "done"]
        /\ UNCHANGED stats
        /\ MainUnchanged

\* GetOrCreate without the test of line 66: every probe stores a new entry
GetOrCreate_Always(k) ==
    LET t == tasks[k]
        d == t.domain
    IN  /\ t.pc \in {"queued", "create"}
        /\ IF t.pc = "queued"
           THEN /\ tasks' = [tasks EXCEPT ![k].pc = "create"]
                /\ UNCHANGED <<stats, heap>>
           ELSE /\ heap' = Append(heap, NewDomainStats)
                /\ stats' = Put(stats, d, Len(heap) + 1)
                /\ tasks' = [tasks EXCEPT ![k].pc = "total"]
        /\ MainUnchanged

\* lines 65-67: a worker picks the call up; if domain not in self.stats,
\* then (a later step) self.stats[domain] = DomainStats()
GetOrCreate(k) ==
    LET t == tasks[k]
        d == t.domain
    IN  /\ t.pc \in {"queued", "create"}
        /\ IF t.pc = "queued"
           THEN /\ tasks' = [tasks EXCEPT ![k].pc =
                                IF Has(stats, d) THEN "total" ELSE "create"]
                /\ UNCHANGED <<stats, heap>>
           ELSE /\ heap' = Append(heap, NewDomainStats)
                /\ stats' = Put(stats, d, Len(heap) + 1)
                /\ tasks' = [tasks EXCEPT ![k].pc = "total"]
        /\ MainUnchanged

\* LookupTotal with the increment_total call of line 69 left out
LookupTotal_NoAttempt(k) ==
    LET t == tasks[k]
    IN  /\ t.pc = "total"
        /\ tasks' = [tasks EXCEPT ![k].ref = Get(stats, t.domain),
                                  ![k].pc = "request"]
        /\ UNCHANGED <<stats, heap>>
        /\ MainUnchanged

\* line 69: self.stats[domain] is loaded, then increment_total is called on it
LookupTotal(k) ==
    LET t == tasks[k]
    IN  /\ t.pc = "total"
        /\ tasks' = [tasks EXCEPT ![k].ref = Get(stats, t.domain),
                                  ![k].pc = "enterT"]
        /\ UNCHANGED <<stats, heap>>
        /\ MainUnchanged

\* LogFor with a line printed for a response that misses the criteria too
LogFor_Verbose(r, url) ==
    IF r.kind = "response"
    THEN IF MeetsCriteria(r.status, r.elapsed)
         THEN <<[kind |-> "SUCCESS", url |-> url, status |-> r.status,
                 elapsed |-> r.elapsed]>>
         ELSE <<[kind |-> "failed", url |-> url, status |-> r.status,
                 elapsed |-> r.elapsed]>>
    ELSE IF ~Caught(r.kind) THEN <<>>
    ELSE IF r.kind = "timeout"
    THEN <<[kind |-> "timed out", url |-> url, status |-> 0, elapsed |-> 0]>>
    ELSE IF r.kind = "transport_error"
    THEN <<[kind |-> "failed", url |-> url, status |-> 0, elapsed |-> 0]>>
    ELSE <<[kind |-> "Unexpected error", url |-> url, status |-> 0, elapsed |-> 0]>>

\* lines 95-104: what check_health prints for the result r of its request
LogFor(r, url) ==
    IF r.kind = "response"
    THEN IF MeetsCriteria(r.status, r.elapsed)
         THEN <<[kind |-> "SUCCESS", url |-> url, status |-> r.status,
                 elapsed |-> r.elapsed]>>
         ELSE <<>>
    ELSE IF ~Caught(r.kind) THEN <<>>
    ELSE IF r.kind = "timeout"
    THEN <<[kind |-> "timed out", url |-> url, status |-> 0, elapsed |-> 0]>>
    ELSE IF r.kind = "transport_error"
    THEN <<[kind |-> "failed", url |-> url, status |-> 0, elapsed |-> 0]>>
    ELSE <<[kind |-> "Unexpected error", url |-> url, status |-> 0, elapsed |-> 0]>>

\* an exception raised while the payload is built: no request is sent
BuildError == [kind |-> "other_error", status |-> 0, elapsed |-> 0]

\* lines 71-104: the payload, the request and what check_health does with
\* its result
Request(k) ==
    LET t == tasks[k]
        e == endpoints[t.ep]
        p == SelectPayload(e.headers, e.body)
    IN  /\ t.pc = "request"
        /\ \E r \in (IF p.raised THEN {BuildError} ELSE Results) :
              tasks' = [tasks EXCEPT
                 ![k].payload = IF p.raised THEN NoPayload ELSE p,
                 ![k].sent = ~p.raised,
                 ![k].result = r,
                 ![k].log = t.log \o LogFor(r, e.url),
                 ![k].ref = IF r.kind = "response" /\ MeetsCriteria(r.status, r.elapsed)
                            THEN Get(stats, t.domain) ELSE t.ref,
                 ![k].pc = IF r.kind = "response"
                           THEN IF MeetsCriteria(r.status, r.elapsed)
                                THEN "enterS" ELSE "done"
                           ELSE IF Caught(r.kind) THEN "done" ELSE "raised"]
        /\ UNCHANGED <<stats, heap>>
        /\ MainUnchanged

Next ==
    \/ StartMonitor
    \/ Submit
    \/ Join
    \/ log_results
    \/ Sleep
    \/ Interrupt
    \/ InterruptUncaught
    \/ \E k \in 1..Len(tasks) : GetOrCreate(k)
    \/ \E k \in 1..Len(tasks) : LookupTotal(k)
    \/ \E k \in 1..Len(tasks) : increment_total(k)
    \/ \E k \in 1..Len(tasks) : Request(k)
    \/ \E k \in 1..Len(tasks) : increment_success(k)

Spec == Init /\ [][Next]_vars

\* check_health run on a monitor whose registry holds no entry for the
\* endpoints' domains: self.stats as line 35 leaves it, the state in which
\* the `domain not in self.stats` branch of lines 66-67 is taken
InitLazy ==
    /\ endpoints \in Configs
    /\ stats = <<>>
    /\ heap = <<>>
    /\ tasks = <<>>
    /\ mainpc = "Starting"
    /\ batch = 0
    /\ reports = 0
    /\ sleeps = 0
    /\ report = <<>>
    /\ stopLogged = FALSE
    /\ before = [d \in Domains |-> [total |-> 0, success |-> 0]]

SpecLazy == InitLazy /\ [][Next]_vars

\* log_results called on a registry whose single entry holds any counters
\* success <= total <= MaxCount
InitReport ==
    /\ endpoints = <<Endpoint(URL_A)>>
    /\ stats = InitializeStats(endpoints, 1).reg
    /\ \E t \in 0..MaxCount : \E c \in 0..t :
          heap = <<[total |-> t, success |-> c, locked |-> FALSE]>>
    /\ tasks = <<>>
    /\ mainpc = "report"
    /\ batch = 0
    /\ reports = 0
    /\ sleeps = 0
    /\ report = <<>>
    /\ stopLogged = FALSE
    /\ before = [d \in Domains |-> [total |-> 0, success |-> 0]]

NextReport == log_results

\* a monitor of one endpoint, with any of the header dicts and bodies
InitPayload ==
    /\ \E h \in HeaderDicts, b \in Bodies :
          endpoints = <<[url |-> URL_A, headers |-> h, body |-> b]>>
    /\ stats = InitializeStats(endpoints, Len(endpoints)).reg
    /\ heap = InitializeStats(endpoints, Len(endpoints)).hp
    /\ tasks = <<>>
    /\ mainpc = "Starting"
    /\ batch = 0
    /\ reports = 0
    /\ sleeps = 0
    /\ report = <<>>
    /\ stopLogged = FALSE
    /\ before = [d \in Domains |-> [total |-> 0, success |-> 0]]

SpecPayload == InitPayload /\ [][Next]_vars

\* the parts of a URL  scheme://[userinfo@]host[:port][path]
UrlParts ==
    [scheme   : {<<"h">>, <<"h", "s">>},
     userinfo : {<<>>, <<"u">>, <<"u", ":", "p">>},
     host     : {<<"a">>, <<"b">>},
     port     : {<<>>, <<"8">>},
     path     : {<<>>, <<"/", "v">>}]

\* the text of the URL with these parts
Render(c) ==
    c.scheme \o <<":", "/", "/">>
    \o (IF c.userinfo = <<>> THEN <<>> ELSE c.userinfo \o <<"@">>)
    \o c.host
    \o (IF c.port = <<>> THEN <<>> ELSE <<":">> \o c.port)
    \o c.path

\* EndpointMonitor.__init__ up to line 35, for a list of two endpoints with
\* any of these URLs
InitDomain ==
    /\ \E c1 \in UrlParts, c2 \in UrlParts :
          endpoints = <<Endpoint(Render(c1)), Endpoint(Render(c2))>>
    /\ stats = <<>>
    /\ heap = <<>>
    /\ tasks = <<>>
    /\ mainpc = "Constructing"
    /\ batch = 0
    /\ reports = 0
    /\ sleeps = 0
    /\ report = <<>>
    /\ stopLogged = FALSE
    /\ before = [d \in Domains |-> [total |-> 0, success |-> 0]]

\* line 36: self._initialize_stats()
initialize_stats ==
    /\ mainpc = "Constructing"
    /\ stats' = InitializeStats(endpoints, Len(endpoints)).reg
    /\ heap' = InitializeStats(endpoints, Len(endpoints)).hp
    /\ mainpc' = "Starting"
    /\ UNCHANGED <<endpoints, tasks, batch, reports, sleeps, report,
                   stopLogged, before>>

NextDomain == initialize_stats

SpecDomain == InitDomain /\ [][NextDomain]_vars

SpecReport == InitReport /\ [][NextReport]_vars

TypeOK ==
    /\ mainpc \in {"Constructing", "Starting", "Killed", "Stopped"} \cup InTry
    /\ batch \in 0..MaxTicks
    /\ reports \in 0..MaxTicks
    /\ \A k \in 1..Len(tasks) : tasks[k].pc \in
         {"queued", "create", "total", "enterT", "exitT", "request",
          "enterS", "exitS", "done", "raised"}

----------------------------------------------------------------------------
(* Properties *)

TaskIds == 1..Len(tasks)

\* the classification of a probe by what the HTTP client handed back
Outcome(r) ==
    IF r.kind = "response"
    THEN IF r.status < 200 \/ r.status >= 300 THEN "http_error_status"
         ELSE IF r.elapsed > 500 THEN "overlatency"
         ELSE "success"
    ELSE IF r.kind = "other_error" THEN "unexpected_error"
    ELSE r.kind

\* number of attempt / success increments the current tasks have made for d
AttBy(d) ==
    Cardinality({k \in TaskIds : tasks[k].domain = d /\ tasks[k].att = 1})

SuccBy(d) ==
    Cardinality({k \in TaskIds : tasks[k].domain = d /\ tasks[k].succ = 1})

\* C1: in every state, also in the middle of any interleaving of probes and
\* when log_results reads, succeeded(D) <= attempted(D) for every domain and
\* every DomainStats object, and no probe increments succeeded before it
\* has incremented attempted.
C1_SucceededAtMostAttempted ==
    /\ \A d \in Domains : Success(d) <= Total(d)
    /\ \A o \in 1..Len(heap) : heap[o].success <= heap[o].total
    /\ \A k \in TaskIds :
          /\ tasks[k].succ <= tasks[k].att
          /\ tasks[k].pc \in {"enterS", "exitS"} => tasks[k].att = 1

\* two probes of one domain: one has counted its attempt and its success,
\* the other is inside increment_total
C1_Witness ==
    \E k, j \in TaskIds :
       /\ k # j
       /\ tasks[k].domain = tasks[j].domain
       /\ tasks[k].succ = 1
       /\ tasks[j].pc = "exitT"
       /\ Success(tasks[k].domain) = Total(tasks[k].domain)

\* C2: whenever a batch is complete, attempted(D) is its value at the start
\* of the batch plus the number of configured endpoints of domain D, for
\* every interleaving of the probes: no increment is lost.
C2_BatchAddsCount ==
    (tasks # <<>> /\ AllFinished) =>
       \A d \in Domains : Total(d) = before[d].total + Count(d)

\* the second batch of a list with two endpoints of one domain has been joined
C2_Witness ==
    /\ mainpc = "report"
    /\ batch = 2
    /\ \E d \in Domains : Count(d) = 2 /\ before[d].total = 2 /\ Total(d) = 4

C4_OneAttemptPerProbe ==
    /\ \A k \in TaskIds :
          /\ tasks[k].att \in {0, 1}
          /\ tasks[k].succ \in {0, 1}
          /\ Finished(tasks[k]) =>
                /\ tasks[k].att = 1
                /\ tasks[k].succ = 1 <=> Outcome(tasks[k].result) = "success"
    /\ \A d \in Domains :
          /\ Total(d) = before[d].total + AttBy(d)
          /\ Success(d) = before[d].success + SuccBy(d)

\* a finished batch holding a success and a failure of one domain
C4_Witness ==
    /\ AllFinished
    /\ \E k, j \in TaskIds :
          /\ tasks[k].domain = tasks[j].domain
          /\ Outcome(tasks[k].result) = "success"
          /\ Outcome(tasks[j].result) \in {"timeout", "overlatency"}
          /\ Total(tasks[k].domain) = before[tasks[k].domain].total + 2
          /\ Success(tasks[k].domain) = before[tasks[k].domain].success + 1

\* C5: a probe that got a response goes on to increment succeeded exactly
\* when 200 <= status < 300 and elapsed <= 500 ms; (200, 500) and (299, 500)
\* succeed, (200, 501), (300, t) and (199, t) leave succeeded unchanged.
C5_SuccessPredicate ==
    \A k \in TaskIds :
       LET t == tasks[k]
           counted == t.pc \in {"enterS", "exitS"} \/ t.succ = 1
       IN  t.result.kind = "response" =>
              /\ counted <=> (/\ 200 <= t.result.status
                              /\ t.result.status < 300
                              /\ t.result.elapsed <= 500)
              /\ (t.result.status = 200 /\ t.result.elapsed = 500) => counted
              /\ (t.result.status = 299 /\ t.result.elapsed = 500) => counted
              /\ (t.result.status = 200 /\ t.result.elapsed = 501) => ~counted
              /\ t.result.status \in {199, 300} => ~counted
              /\ (Finished(t) /\ ~counted) => t.succ = 0

\* one finished probe answered 299 in 500 ms and counted, another answered
\* 200 in 501 ms and not counted
C5_Witness ==
    \E k, j \in TaskIds :
       /\ tasks[k].pc = "done"
       /\ tasks[k].result = [kind |-> "response", status |-> 299, elapsed |-> 500]
       /\ tasks[k].succ = 1
       /\ tasks[j].pc = "done"
       /\ tasks[j].result = [kind |-> "response", status |-> 200, elapsed |-> 501]
       /\ tasks[j].succ = 0

\* C6: batches never overlap: when a probe of batch N+1 has started, every
\* probe of the earlier batches has finished and the report of batch N has
\* been emitted.
C6_BatchesNeverOverlap ==
    \A k \in TaskIds :
       /\ tasks[k].batch <= batch
       /\ tasks[k].pc # "queued" =>
             /\ reports >= tasks[k].batch - 1
             /\ \A j \in TaskIds :
                   tasks[j].batch < tasks[k].batch => Finished(tasks[j])

\* a probe of the second batch is running after the first report
C6_Witness ==
    /\ reports = 1
    /\ \E k \in TaskIds : tasks[k].batch = 2 /\ InFlight(tasks[k])

\* C7: check_all_endpoints starts one probe per configured endpoint and
\* returns only when all of them have finished, so log_results reads the
\* counters with no probe of the batch in flight.
C7_JoinBeforeReport ==
    /\ mainpc \in {"join", "report", "sleep"} =>
          /\ Len(tasks) = Len(endpoints)
          /\ \A i \in TaskIds : tasks[i].ep = i /\ tasks[i].batch = batch
    /\ mainpc \in {"report", "sleep"} =>
          \A k \in TaskIds : Finished(tasks[k])

\* log_results is about to read after a batch of two probes, of which one
\* succeeded and one timed out
C7_Witness ==
    /\ mainpc = "report"
    /\ Len(tasks) = 2
    /\ \E k, j \in TaskIds :
          /\ tasks[k].succ = 1
          /\ tasks[j].result.kind = "timeout"

\* C8: a timeout, transport error or unexpected error stays inside its
\* probe: no call ends by raising, every sibling runs to completion with
\* its own counter updates, check_all_endpoints returns, and the loop goes
\* on to the report and the next tick; the loop is not terminated by a probe.
C8_FailuresStayLocal ==
    /\ \A k \in TaskIds : tasks[k].pc # "raised"
    /\ mainpc = "Killed" => tasks = <<>>
    /\ (mainpc = "join" /\ \A k \in TaskIds : Finished(tasks[k])) => ENABLED Join
    /\ mainpc = "report" => ENABLED log_results
    /\ (mainpc = "sleep" /\ batch < MaxTicks) => ENABLED Sleep
    /\ mainpc \in {"report", "sleep"} =>
          \A k \in TaskIds :
             /\ tasks[k].pc = "done"
             /\ tasks[k].att = 1
             /\ tasks[k].succ = 1 <=> Outcome(tasks[k].result) = "success"

\* the report after a batch in which one probe hit an unexpected error and
\* its sibling succeeded has been emitted, and the next tick can start
C8_Witness ==
    /\ mainpc = "sleep"
    /\ reports = 1
    /\ ENABLED Sleep
    /\ \E k, j \in TaskIds :
          /\ tasks[k].result.kind = "other_error"
          /\ tasks[k].pc = "done"
          /\ tasks[j].succ = 1

\* C9: once the loop has caught the KeyboardInterrupt it has logged the
\* stop message, starts no batch and emits no report any more; Stopped is
\* never left, and it is entered only from inside the try block, by the
\* interrupt.
C9_StoppedIsTerminal ==
    [][/\ mainpc = "Stopped" =>
             /\ mainpc' = "Stopped"
             /\ stopLogged'
             /\ batch' = batch
             /\ reports' = reports
             /\ report' = report
             /\ Len(tasks') = Len(tasks)
       /\ (mainpc # "Stopped" /\ mainpc' = "Stopped") =>
             /\ mainpc \in {"fanout", "join", "report", "sleep"}
             /\ stopLogged'
             /\ batch' = batch
             /\ reports' = reports
       /\ stopLogged' => mainpc' = "Stopped"]_vars

\* the loop was stopped in the middle of its second batch
C9_Witness ==
    /\ mainpc = "Stopped"
    /\ stopLogged
    /\ batch = 2
    /\ reports = 1
    /\ \E k \in TaskIds : InFlight(tasks[k])

\* C10: the first pass starts before any wait, every later pass after
\* exactly one more wait, and every pass is followed by exactly one report
\* before the loop waits or starts another pass.
C10_ReportAfterEveryTick ==
    /\ sleeps <= reports /\ reports <= batch
    /\ mainpc \in {"Starting", "Killed"} => batch = 0 /\ reports = 0 /\ sleeps = 0
    /\ mainpc = "fanout" => reports = batch /\ sleeps = batch
    /\ mainpc \in {"join", "report"} => reports = batch - 1 /\ sleeps = batch - 1
    /\ mainpc = "sleep" => reports = batch /\ sleeps = batch - 1
    /\ mainpc = "Stopped" => reports \in {batch - 1, batch}
    /\ reports = 0 => report = <<>>
    /\ reports > 0 => Len(report) = Len(stats)

\* the loop waits after its second pass and second report
C10_Witness ==
    /\ mainpc = "sleep"
    /\ batch = 2
    /\ reports = 2
    /\ sleeps = 1

\* number of current tasks of domain d whose result classifies as success
WinsBy(d) ==
    Cardinality({k \in TaskIds :
                   tasks[k].domain = d /\ Outcome(tasks[k].result) = "success"})

\* C11: the k-th report has one line per configured domain D, showing
\* attempted = k * (number of endpoints of D) and succeeded = the count of
\* the previous report plus the probes of D classified as success in batch
\* k (none before the first); one success out of two gives 50%.
C11_KthReport ==
    reports >= 1 =>
       /\ Len(report) = Cardinality({d \in Domains : Count(d) > 0})
       /\ \A i \in 1..Len(report) :
             LET l == report[i]
             IN  /\ l.total = reports * Count(l.domain)
                 /\ mainpc = "sleep" =>
                       /\ l.success = before[l.domain].success + WinsBy(l.domain)
                       /\ reports = 1 => before[l.domain].success = 0
                 /\ mainpc \in {"join", "report"} =>
                       l.success = before[l.domain].success
                 /\ (l.total = 2 /\ l.success = 1) => l.percentage = 50

\* the second report of a list with two endpoints of one domain: 1 of 2
\* succeeded in the first batch (the other answered with a bad status or
\* too late), and 1 of 2 in the second
C11_Witness ==
    /\ reports = 2
    /\ mainpc = "sleep"
    /\ \E i \in 1..Len(report) :
          /\ report[i].total = 4
          /\ report[i].success = 2
          /\ report[i].percentage = 50
          /\ before[report[i].domain].success = 1
    /\ \E k \in TaskIds : Outcome(tasks[k].result) = "http_error_status"

\* C12: every percentage log_results prints is an integer from 0 to 100,
\* and it is 0 for a domain without attempts.
C12_PercentageRange ==
    \A i \in 1..Len(report) :
       /\ report[i].percentage \in 0..100
       /\ report[i].total = 0 => report[i].percentage = 0

\* a report line for a domain without attempts
C12_Witness ==
    /\ reports = 1
    /\ report[1].total = 0
    /\ report[1].percentage = 0

\* |x|
Abs(x) == IF x < 0 THEN -x ELSE x

\* C13: with attempts, the printed percentage p is 100 * succeeded /
\* attempted rounded to the nearest integer, a tie going to the even
\* neighbour: 1/3 -> 33, 2/3 -> 67, 1/2 -> 50, 1/8 -> 12, 3/8 -> 38.
C13_RoundHalfEven ==
    \A i \in 1..Len(report) :
       LET c == report[i].success
           t == report[i].total
           p == report[i].percentage
       IN  t > 0 =>
              /\ 2 * Abs(100 * c - p * t) <= t
              /\ 2 * Abs(100 * c - p * t) = t => p % 2 = 0
              /\ (c = 1 /\ t = 3) => p = 33
              /\ (c = 2 /\ t = 3) => p = 67
              /\ (c = 1 /\ t = 2) => p = 50
              /\ (c = 1 /\ t = 8) => p = 12
              /\ (c = 3 /\ t = 8) => p = 38

\* the tie 3/8 = 37.5 % has been printed as 38
C13_Witness ==
    /\ reports = 1
    /\ report[1].success = 3
    /\ report[1].total = 8
    /\ report[1].percentage = 38

\* C14: the domain extracted from a well-formed URL is its host, without
\* the port and never empty, so that endpoints whose URLs name one host
\* (whatever the scheme, port or path) have one registry entry between them.
C14_DomainIsHost ==
    mainpc = "Starting" =>
       \A i \in 1..Len(endpoints) : \A c \in UrlParts :
          endpoints[i].url = Render(c) =>
             /\ extract_domain(endpoints[i].url) = c.host
             /\ extract_domain(endpoints[i].url) # <<>>
             /\ Has(stats, c.host)
             /\ \A j \in 1..Len(endpoints) : \A cj \in UrlParts :
                   (endpoints[j].url = Render(cj) /\ cj.host = c.host) =>
                      Get(stats, DomainOf(i)) = Get(stats, DomainOf(j))

\* the part of C14 that holds: URLs without userinfo
C14_NoUserinfoProbe ==
    mainpc = "Starting" =>
       \A i \in 1..Len(endpoints) : \A c \in UrlParts :
          (endpoints[i].url = Render(c) /\ c.userinfo = <<>>) =>
             extract_domain(endpoints[i].url) = c.host

\* some header named content-type, in any letter case, has a value
\* containing json
JsonFlagged(headers) ==
    \E n \in DOMAIN headers :
       Lower(n) = CT_LOWER /\ Contains(Lower(headers[n]), JSON)

\* what the request was given as its payload
Sent(p) == IF p.json # None THEN p.json ELSE p.data

\* C15: once the request has been made, its payload is: nothing for an
\* empty body; the raw string for a body that is not JSON-flagged; the
\* parsed value for a valid JSON body flagged by a content-type header whose
\* name matches in any letter case.
C15_PayloadSelection ==
    \A k \in TaskIds :
       LET e == endpoints[tasks[k].ep]
           sent == Sent(tasks[k].payload)
       IN  tasks[k].sent =>
              /\ e.body = <<>> => sent = None
              /\ (e.body # <<>> /\ ~JsonFlagged(e.headers)) => sent = Str(e.body)
              /\ (e.body = B_OBJECT /\ JsonFlagged(e.headers)) => sent.type = "dict"
              /\ (e.body = B_ARRAY /\ JsonFlagged(e.headers)) => sent.type = "list"

\* C15 for header names spelled exactly content-type
C15_LowerCaseNameProbe ==
    \A k \in TaskIds :
       LET e == endpoints[tasks[k].ep]
           sent == Sent(tasks[k].payload)
       IN  (tasks[k].sent /\ CT_TITLE \notin DOMAIN e.headers) =>
              /\ e.body = <<>> => sent = None
              /\ (e.body # <<>> /\ ~JsonFlagged(e.headers)) => sent = Str(e.body)
              /\ (e.body = B_OBJECT /\ JsonFlagged(e.headers)) => sent.type = "dict"
              /\ (e.body = B_ARRAY /\ JsonFlagged(e.headers)) => sent.type = "list"

\* C16: a JSON-flagged body that is not valid JSON does not abort the
\* probe: the request is made with the raw body string as its payload, and
\* the probe is classified by the usual success predicate.
C16_MalformedJsonFallsBack ==
    \A k \in TaskIds :
       LET t == tasks[k]
           e == endpoints[t.ep]
       IN  (e.body = B_MALFORMED /\ JsonFlagged(e.headers)) =>
              /\ t.result # NoResult =>
                    /\ t.sent
                    /\ t.payload.data = Str(B_MALFORMED)
                    /\ t.payload.json = None
              /\ Finished(t) =>
                    /\ t.pc = "done"
                    /\ t.succ = 1 <=> Outcome(t.result) = "success"

\* a probe with the body { and content-type a/json has been answered 200
\* in time and has counted its success
C16_Witness ==
    \E k \in TaskIds :
       /\ endpoints[tasks[k].ep].body = B_MALFORMED
       /\ CT_LOWER \in DOMAIN endpoints[tasks[k].ep].headers
       /\ endpoints[tasks[k].ep].headers[CT_LOWER] = V_JSON
       /\ tasks[k].payload.data = Str(B_MALFORMED)
       /\ tasks[k].result = [kind |-> "response", status |-> 200, elapsed |-> 500]
       /\ tasks[k].succ = 1

\* C17: in every step the registry keeps every entry it has, in place and
\* bound to the same DomainStats object, and no object's total or success
\* goes down.
C17_EntriesPersist ==
    [][/\ Len(stats') >= Len(stats)
       /\ \A i \in 1..Len(stats) : stats'[i] = stats[i]
       /\ Len(heap') >= Len(heap)
       /\ \A o \in 1..Len(heap) :
             /\ heap'[o].total >= heap[o].total
             /\ heap'[o].success >= heap[o].success]_vars

\* the second batch is over and a domain shows what both batches added
C17_Witness ==
    /\ batch = 2
    /\ AllFinished
    /\ \E d \in Domains :
          /\ Count(d) >= 1
          /\ Total(d) = 2 * Count(d)
          /\ Success(d) >= 1
          /\ before[d].total = Count(d)

\* C18: a probe has incremented attempted before its request is made, so
\* a probe that ends in a timeout, a transport error or an unexpected error
\* has counted one attempt and no success.
C18_AttemptBeforeRequest ==
    \A k \in TaskIds :
       LET t == tasks[k]
       IN  /\ t.att = 0 => (~t.sent /\ t.result = NoResult)
           /\ (t.sent \/ t.result # NoResult) =>
                 /\ t.att = 1
                 /\ heap[Get(stats, t.domain)].total >= before[t.domain].total + 1
           /\ t.result.kind \in {"timeout", "transport_error", "other_error"} =>
                 /\ t.att = 1
                 /\ t.succ = 0
                 /\ Finished(t)

\* the only probe of a domain has timed out: the domain shows one attempt
\* more and no success more than before the batch
C18_Witness ==
    \E k \in TaskIds :
       /\ tasks[k].result.kind = "timeout"
       /\ tasks[k].sent
       /\ Count(tasks[k].domain) = 1
       /\ Total(tasks[k].domain) = before[tasks[k].domain].total + 1
       /\ Success(tasks[k].domain) = before[tasks[k].domain].success

\* the line a probe of url is to have printed for an outcome
LineKind(outcome) ==
    CASE outcome = "success"          -> <<"SUCCESS">>
      [] outcome = "timeout"          -> <<"timed out">>
      [] outcome = "transport_error"  -> <<"failed">>
      [] outcome = "unexpected_error" -> <<"Unexpected error">>
      [] OTHER                        -> <<>>

\* C19: a probe prints at most one line: nothing before its request has
\* ended, and then the success line, the timeout line, the failure line or
\* the generic line by its outcome, each naming the URL, and nothing for a
\* response with a status outside 200..299 or an elapsed time over 500 ms.
C19_OneLineByOutcome ==
    \A k \in TaskIds :
       LET t == tasks[k]
       IN  /\ Len(t.log) <= 1
           /\ t.result = NoResult => t.log = <<>>
           /\ t.result # NoResult =>
                 /\ [i \in 1..Len(t.log) |-> t.log[i].kind]
                       = LineKind(Outcome(t.result))
                 /\ \A i \in 1..Len(t.log) : t.log[i].url = endpoints[t.ep].url
           /\ (t.result.kind = "response" /\ Outcome(t.result) # "success") =>
                 t.log = <<>>

\* of two finished probes one has printed its timeout line and the other,
\* answered 300 or answered late, has printed nothing
C19_Witness ==
    \E k, j \in TaskIds :
       /\ Finished(tasks[k])
       /\ Finished(tasks[j])
       /\ tasks[k].result.kind = "timeout"
       /\ Len(tasks[k].log) = 1
       /\ tasks[k].log[1].kind = "timed out"
       /\ Outcome(tasks[j].result) \in {"http_error_status", "overlatency"}
       /\ tasks[j].log = <<>>

\* the total and success of DomainStats object o in heap hp
Counters(hp, o) == <<hp[o].total, hp[o].success>>

\* C20: in every step the endpoint list and the registry's keys stay as
\* they are, a domain's counters change only in a step of a probe of that
\* domain, and a step of the main thread, log_results among them, changes
\* no counter.
C20_ProbeFrame ==
    [][/\ endpoints' = endpoints
       /\ Len(stats') = Len(stats)
       /\ \A i \in 1..Len(stats) :
             /\ stats'[i].domain = stats[i].domain
             /\ Counters(heap', stats'[i].obj) # Counters(heap, stats[i].obj) =>
                   /\ mainpc' = mainpc
                   /\ reports' = reports
                   /\ Len(tasks') = Len(tasks)
                   /\ \E k \in TaskIds :
                         /\ tasks'[k] # tasks[k]
                         /\ tasks[k].domain = stats[i].domain
                         /\ \A j \in TaskIds \ {k} : tasks'[j] = tasks[j]
       /\ reports' # reports =>
             \A o \in 1..Len(heap) : Counters(heap', o) = Counters(heap, o)]_vars

\* the probe of one domain is over and has counted, the other domain's
\* probe has not started and its counters are as the last report showed them
C20_Witness ==
    /\ reports = 1
    /\ \E k, j \in TaskIds :
          /\ tasks[k].domain # tasks[j].domain
          /\ Finished(tasks[k])
          /\ tasks[k].succ = 1
          /\ tasks[j].pc = "queued"
          /\ Total(tasks[k].domain) = before[tasks[k].domain].total + 1
          /\ Total(tasks[j].domain) = before[tasks[j].domain].total
          /\ Success(tasks[j].domain) = before[tasks[j].domain].success
          /\ \E i \in 1..Len(report) :
                /\ report[i].domain = tasks[j].domain
                /\ report[i].total = Total(tasks[j].domain)
                /\ report[i].success = Success(tasks[j].domain)

====
